---- MODULE Spec2Model ----
(***************************************************************************)
(* A model of OpenSeadragon's Drawer (src/src/drawer.js): the tile cache   *)
(* fields, the canvas / context pair, the public lifecycle operations and  *)
(* the rotation helpers used by drawTile.                                  *)
(*                                                                         *)
(* Numbers.  Tile positions and canvas centres are JavaScript Numbers,     *)
(* i.e. binary floating point with round-to-nearest, ties-to-even.  The    *)
(* model keeps the rounding rule and scales the significand down from 53   *)
(* to MantBits bits.  A value v of the model stands for v/2 pixels, so     *)
(* that canvas.width / 2 is the integer canvas.width.                      *)
(*                                                                         *)
(* Control.  update() and drawTile() call out to application code (the     *)
(* 'tile-drawing' handler) which may call back into the Drawer.  The       *)
(* variable stack holds the Drawer calls in progress, innermost last.      *)
(***************************************************************************)
EXTENDS Integers, Sequences, FiniteSets, TLC

\* Significand width of the modelled Number type.
MantBits == 3
\* Number of tile coordinates (level, column, row) the viewport can show.
NumTiles == 2
\* Longest chain of Drawer calls in progress (update > drawTile > hook > ...).
MaxDepth == 3
\* Number of calls by the application (between frames or from inside the
\* 'tile-drawing' handler) and of collaborator events in one run.  The
\* tile draws an update cycle makes itself are not counted.
MaxCalls == 4
\* options.maxImageCacheCount: the loaded-tile budget of this Drawer.
maxImageCacheCount == 1

VARIABLES
    useCanvas,      \* this.useCanvas
    context,        \* this.context: "2d" or "null"
    canvas,         \* this.canvas: [width, height, hasChildren]
    ctx,            \* the 2d context: [depth |-> saved states, touched |-> ever used]
    viewport,       \* this.viewport: [degrees, size]
    tile,           \* tile records by coordinate: [state, image, pos]
    tilesMatrix,    \* coordinates that have a record in this.tilesMatrix
    tilesLoaded,    \* this.tilesLoaded
    coverage,       \* coordinates whose this.coverage entry is true
    lastDrawn,      \* this.lastDrawn
    midUpdate,      \* this.midUpdate
    updateAgain,    \* this.updateAgain
    opacity,        \* this.opacity
    visible,        \* the visible set of the current frame
    stack,          \* Drawer calls in progress, innermost last
    hookInvoked,    \* history: this._drawingHandler was called at least once
    destroyed,      \* history: destroy() was called
    calls,          \* history: application calls and collaborator events so far
    last            \* history: the public call that acted last, and how it ended

vars == <<useCanvas, context, canvas, ctx, viewport, tile, tilesMatrix,
          tilesLoaded, coverage, lastDrawn, midUpdate,
          updateAgain, opacity, visible, stack, hookInvoked, destroyed, calls, last>>

Tiles == 1..NumTiles

-----------------------------------------------------------------------------
(* JavaScript Number arithmetic *)

RECURSIVE Pow2(_)
Pow2(n) == IF n = 0 THEN 1 ELSE 2 * Pow2(n - 1)

\* The spacing of representable values around a magnitude n.
RECURSIVE Quantum(_)
Quantum(n) == IF n < Pow2(MantBits) THEN 1 ELSE 2 * Quantum(n \div 2)

\* Round-to-nearest, ties to the even significand.
RoundNat(n) ==
    LET q  == Quantum(n)
        m  == n \div q
        lo == m * q
        r  == n - lo
    IN  IF 2 * r < q THEN lo
        ELSE IF 2 * r > q THEN lo + q
        ELSE IF m % 2 = 0 THEN lo ELSE lo + q

Fl(n) == IF n >= 0 THEN RoundNat(n) ELSE 0 - RoundNat(0 - n)

\* a - b and a + b as the language computes them.
Minus(a, b) == Fl(a - b)
Plus(a, b)  == Fl(a + b)
\* width / 2, in the model's half-pixel unit.
Half(w) == Fl(w)

-----------------------------------------------------------------------------
(* Inputs *)

\* A canvas wide enough that position - centre needs more significand bits
\* than the Number type has.
WideSize == Pow2(MantBits + 1)

\* viewport.getContainerSize()
ContainerSizes == { <<2, 2>>, <<WideSize, 2>> }
\* viewport.degrees
Degrees == { 0, 45 }
\* The target screen position the viewport assigns to a tile coordinate
\* (half pixels): odd coordinates at <<5, 1>>, even ones at <<2, 3>>.
Place(t) == IF t % 2 = 1 THEN <<5, 1>> ELSE <<2, 3>>
Opacities == { 0, 1 }
Origin == <<0, 0>>

\* Tiles handed to drawTile have a position on or near the screen.
OnScreen(p) == /\ p[1] >= 0 - WideSize /\ p[1] <= WideSize
               /\ p[2] >= 0 - WideSize /\ p[2] <= WideSize

NoTile == [state |-> "absent", image |-> FALSE, pos |-> Origin]

Top == stack[Len(stack)]
Pop(s) == SubSeq(s, 1, Len(s) - 1)
\* Application code is in control: between Drawer calls, or inside the
\* 'tile-drawing' handler that a drawTile in progress has invoked.
AppRuns == IF stack = <<>> THEN TRUE ELSE Top.kind = "draw"

\* One more application call or collaborator event, within the bound.
Called == calls < MaxCalls /\ calls' = calls + 1

NoFrame == [kind |-> "none"]
\* History record of the call that acted last: the operation ("other" for
\* those whose return state no property examines), whether it returned
\* normally, numTilesLoaded() and needsUpdate() before it, the frame it ended.
Did(op, ok, fr) == [op |-> op, ok |-> ok, frame |-> fr,
                    n0 |-> IF op \in {"reset", "destroy"} THEN Len(tilesLoaded) ELSE 0,
                    again0 |-> IF op = "reset" THEN updateAgain ELSE FALSE]

InSeq(x, s) == \E i \in DOMAIN s : s[i] = x
ReferencedIn(st, t) == \E i \in DOMAIN st :
                    \/ st[i].kind = "draw" /\ st[i].tile = t
                    \/ st[i].kind = "update" /\ InSeq(t, st[i].todo)
\* A record some call in progress still holds a reference to.
Referenced(t) == ReferencedIn(stack, t)
\* Records neither in tilesMatrix nor held by a call in progress are garbage.
Collect(tl, mx, st) == [t \in Tiles |-> IF t \in mx \/ ReferencedIn(st, t) THEN tl[t] ELSE NoTile]

-----------------------------------------------------------------------------
(* Construction *)

Init ==
    /\ useCanvas \in BOOLEAN
    /\ context = IF useCanvas THEN "2d" ELSE "null"
    /\ \E s \in ContainerSizes :
          canvas = IF useCanvas
                   THEN [width |-> s[1], height |-> s[2], hasChildren |-> FALSE]
                   ELSE [width |-> 0, height |-> 0, hasChildren |-> FALSE]
    /\ ctx = [depth |-> 0, touched |-> FALSE]
    /\ viewport \in [degrees : Degrees, size : ContainerSizes]
    /\ tile = [t \in Tiles |-> NoTile]
    /\ tilesMatrix = {}
    /\ tilesLoaded = <<>>
    /\ coverage = {}
    /\ lastDrawn = <<>>
    /\ midUpdate = FALSE
    /\ updateAgain = TRUE
    /\ opacity \in Opacities
    /\ visible = {}
    /\ stack = <<>>
    /\ hookInvoked = FALSE
    /\ destroyed = FALSE
    /\ calls = 0
    /\ last = [op |-> "new", ok |-> TRUE, n0 |-> 0, again0 |-> FALSE, frame |-> NoFrame]

-----------------------------------------------------------------------------
(* Queries *)

getOpacity == opacity
needsUpdate == updateAgain
numTilesLoaded == Len(tilesLoaded)
canRotateAlways == TRUE
canRotate == useCanvas

-----------------------------------------------------------------------------
(* Tile records and the tile cache *)

\* Tile.prototype.unload: releases the image.
Unload(rec) == [rec EXCEPT !.state = "unloaded", !.image = FALSE]

\* clearTiles( drawer ): unloads every loaded record and empties the cache.
ClearedTiles == [t \in Tiles |->
                   IF Referenced(t)
                   THEN [Unload(tile[t]) EXCEPT !.state = IF tile[t].state = "absent" THEN "absent" ELSE "unloaded"]
                   ELSE NoTile]

-----------------------------------------------------------------------------
(* Public operations that run to completion *)

\* setOpacity( opacity ) that also schedules a redraw.
setOpacityRedraws(v) ==
    /\ Called
    /\ AppRuns
    /\ opacity' = v
    /\ updateAgain' = TRUE
    /\ last' = Did("setOpacity", TRUE, [kind |-> "opacity", value |-> v])
    /\ UNCHANGED <<useCanvas, context, canvas, ctx, viewport, tile, tilesMatrix,
                   tilesLoaded, coverage, lastDrawn, midUpdate,
                   visible, stack, hookInvoked, destroyed>>

\* setOpacity( opacity )
setOpacity(v) ==
    /\ Called
    /\ AppRuns
    /\ opacity' = v
    /\ last' = Did("setOpacity", TRUE, [kind |-> "opacity", value |-> v])
    /\ UNCHANGED <<useCanvas, context, canvas, ctx, viewport, tile, tilesMatrix,
                   tilesLoaded, coverage, lastDrawn, midUpdate,
                   updateAgain, visible, stack, hookInvoked, destroyed>>

\* reset() that forgets clearTiles.
resetKeepsTiles ==
    /\ Called
    /\ AppRuns
    /\ updateAgain' = TRUE
    /\ last' = Did("reset", TRUE, NoFrame)
    /\ UNCHANGED <<useCanvas, context, canvas, ctx, viewport, tile, tilesMatrix,
                   tilesLoaded, coverage, lastDrawn, midUpdate,
                   opacity, visible, stack, hookInvoked, destroyed>>

\* reset() that does not schedule a redraw.
resetNoRedraw ==
    /\ Called
    /\ AppRuns
    /\ tile' = ClearedTiles
    /\ tilesMatrix' = {}
    /\ tilesLoaded' = <<>>
    /\ coverage' = {}
    /\ lastDrawn' = <<>>
    /\ last' = Did("reset", TRUE, NoFrame)
    /\ UNCHANGED <<useCanvas, context, canvas, ctx, viewport, midUpdate, updateAgain,
                   opacity, visible, stack, hookInvoked, destroyed>>

\* reset()
reset ==
    /\ Called
    /\ AppRuns
    /\ tile' = ClearedTiles
    /\ tilesMatrix' = {}
    /\ tilesLoaded' = <<>>
    /\ coverage' = {}
    /\ lastDrawn' = <<>>
    /\ updateAgain' = TRUE
    /\ last' = Did("reset", TRUE, NoFrame)
    /\ UNCHANGED <<useCanvas, context, canvas, ctx, viewport, midUpdate,
                   opacity, visible, stack, hookInvoked, destroyed>>

\* destroy() whose loop stops one record early.
destroySkipsLast ==
    /\ Called
    /\ AppRuns
    /\ tile' = [t \in Tiles |->
                 IF \E i \in 1..(Len(tilesLoaded) - 1) : tilesLoaded[i] = t
                 THEN Unload(tile[t]) ELSE tile[t]]
    /\ canvas' = [canvas EXCEPT !.width = 1, !.height = 1]
    /\ destroyed' = TRUE
    /\ last' = Did("destroy", TRUE, NoFrame)
    /\ UNCHANGED <<useCanvas, context, ctx, viewport, tilesMatrix, tilesLoaded,
                   coverage, lastDrawn, midUpdate, updateAgain,
                   opacity, visible, stack, hookInvoked>>

\* destroy() that empties the cache the way reset() does.
destroyClearsAll ==
    /\ Called
    /\ AppRuns
    /\ tile' = ClearedTiles
    /\ tilesMatrix' = {}
    /\ tilesLoaded' = <<>>
    /\ coverage' = {}
    /\ lastDrawn' = <<>>
    /\ canvas' = [canvas EXCEPT !.width = 1, !.height = 1]
    /\ destroyed' = TRUE
    /\ last' = Did("destroy", TRUE, NoFrame)
    /\ UNCHANGED <<useCanvas, context, ctx, viewport, midUpdate, updateAgain,
                   opacity, visible, stack, hookInvoked>>

\* destroy()
destroy ==
    /\ Called
    /\ AppRuns
    /\ tile' = [t \in Tiles |-> IF InSeq(t, tilesLoaded) THEN Unload(tile[t]) ELSE tile[t]]
    /\ canvas' = [canvas EXCEPT !.width = 1, !.height = 1]
    /\ destroyed' = TRUE
    /\ last' = Did("destroy", TRUE, NoFrame)
    /\ UNCHANGED <<useCanvas, context, ctx, viewport, tilesMatrix, tilesLoaded,
                   coverage, lastDrawn, midUpdate, updateAgain,
                   opacity, visible, stack, hookInvoked>>

\* The condition under which clear() assigns canvas.width and canvas.height.
SizeDiffers == canvas.width # viewport.size[1] \/ canvas.height # viewport.size[2]

\* The canvas and the context as clear() leaves them.
ClearedCanvas ==
    IF useCanvas /\ SizeDiffers
    THEN [width |-> viewport.size[1], height |-> viewport.size[2], hasChildren |-> FALSE]
    ELSE [canvas EXCEPT !.hasChildren = FALSE]
ClearedCtx == IF useCanvas THEN [ctx EXCEPT !.touched = TRUE] ELSE ctx

\* History record of a clear(): whether the canvas size matched the
\* container size on entry, and whether width and height were assigned.
Cleared(wrote) == [kind |-> "clear", matched |-> ~SizeDiffers, wrote |-> wrote]

\* clear() that assigns the canvas size unconditionally.
clearAlwaysWrites ==
    /\ Called
    /\ AppRuns
    /\ canvas' = IF useCanvas
                 THEN [width |-> viewport.size[1], height |-> viewport.size[2], hasChildren |-> FALSE]
                 ELSE [canvas EXCEPT !.hasChildren = FALSE]
    /\ ctx' = ClearedCtx
    /\ last' = Did("clear", TRUE, Cleared(useCanvas))
    /\ UNCHANGED <<useCanvas, context, viewport, tile, tilesMatrix, tilesLoaded,
                   coverage, lastDrawn, midUpdate, updateAgain,
                   opacity, visible, stack, hookInvoked, destroyed>>

\* clear()
clear ==
    /\ Called
    /\ AppRuns
    /\ canvas' = ClearedCanvas
    /\ ctx' = ClearedCtx
    /\ last' = Did("clear", TRUE, Cleared(useCanvas /\ SizeDiffers))
    /\ UNCHANGED <<useCanvas, context, viewport, tile, tilesMatrix, tilesLoaded,
                   coverage, lastDrawn, midUpdate, updateAgain,
                   opacity, visible, stack, hookInvoked, destroyed>>

\* drawDebugInfo( tile, count, i ): on the canvas backend context.save(),
\* the strokes and texts, context.restore(); nothing on the other backend.
drawDebugInfo(t) ==
    /\ Called
    /\ stack = <<>>
    /\ t \in tilesMatrix
    /\ ctx' = IF useCanvas
              THEN [depth |-> (ctx.depth + 1) - 1, touched |-> TRUE]
              ELSE ctx
    /\ last' = Did("debug", TRUE, NoFrame)
    /\ UNCHANGED <<useCanvas, context, canvas, viewport, tile, tilesMatrix,
                   tilesLoaded, coverage, lastDrawn, midUpdate,
                   updateAgain, opacity, visible, stack, hookInvoked, destroyed>>

-----------------------------------------------------------------------------
(* drawTile and the rotation helpers *)

\* [cx, cy] of the helpers: canvas.width / 2, canvas.height / 2.
Center == <<Half(canvas.width), Half(canvas.height)>>

\* _offsetForRotation( tile, degrees ): the tile's position afterwards.
OffsetPosition(p) == <<Minus(p[1], Center[1]), Minus(p[2], Center[2])>>
\* _restoreRotationChanges( tile ): the tile's position afterwards.
RestoredPosition(p) == <<Plus(p[1], Center[1]), Plus(p[2], Center[2])>>

\* The caller's frame once it has handed tile t to drawTile: the update
\* cycle moves t from its draw list to the tiles drawn this frame.
CallerStack(t) ==
    IF stack # <<>> /\ Top.kind = "update"
    THEN [stack EXCEPT ![Len(stack)] =
            [@ EXCEPT !.todo = Tail(@), !.drawn = Append(@, t)]]
    ELSE stack

\* drawTile( tile ) is called by the update cycle for the next tile of its
\* draw list, or by application code for any record of the cache.
CanDraw(t) ==
    /\ IF stack = <<>> THEN t \in tilesMatrix
       ELSE Top.kind = "update" /\ Top.todo # <<>> /\ Head(Top.todo) = t
    /\ OnScreen(tile[t].pos)

\* The useCanvas branch of drawTile up to the point where tile.drawCanvas
\* has called this._drawingHandler: control is now in the handler.
DrawTileCanvas(t) ==
    LET rotated == viewport.degrees # 0 IN
    /\ Len(stack) < MaxDepth
    /\ rotated => ctx.depth < MaxDepth
    /\ tile' = IF rotated
               THEN [tile EXCEPT ![t].pos = OffsetPosition(@)]
               ELSE tile
    /\ ctx' = [depth |-> IF rotated THEN ctx.depth + 1 ELSE ctx.depth, touched |-> TRUE]
    /\ hookInvoked' = TRUE
    /\ stack' = Append(CallerStack(t),
                       [kind |-> "draw", tile |-> t, rotated |-> rotated,
                        pos0 |-> tile[t].pos, depth0 |-> ctx.depth,
                        size0 |-> <<canvas.width, canvas.height>>])
    /\ last' = Did("other", TRUE, NoFrame)
    /\ UNCHANGED canvas

\* The other branch: tile.drawHTML( this.canvas ) appends the tile's node.
DrawTileHTML(t) ==
    /\ canvas' = [canvas EXCEPT !.hasChildren = TRUE]
    /\ stack' = CallerStack(t)
    /\ last' = Did("drawTile", TRUE,
                   [kind |-> "html", tile |-> t, rotated |-> viewport.degrees # 0])
    /\ UNCHANGED <<tile, ctx, hookInvoked>>

\* drawTile( tile ) that takes the canvas path on either backend.
drawTileNoBranch(t) ==
    /\ IF stack = <<>> THEN Called ELSE UNCHANGED calls
    /\ CanDraw(t)
    /\ DrawTileCanvas(t)
    /\ UNCHANGED <<useCanvas, context, viewport, tilesMatrix, tilesLoaded,
                   coverage, lastDrawn, midUpdate, updateAgain,
                   opacity, visible, destroyed>>

\* drawTile( tile )
drawTile(t) ==
    /\ IF stack = <<>> THEN Called ELSE UNCHANGED calls
    /\ CanDraw(t)
    /\ IF useCanvas THEN DrawTileCanvas(t) ELSE DrawTileHTML(t)
    /\ UNCHANGED <<useCanvas, context, viewport, tilesMatrix, tilesLoaded,
                   coverage, lastDrawn, midUpdate, updateAgain,
                   opacity, visible, destroyed>>

\* drawTile whose exit restores the position but not the context.
drawTileReturnNoRestore ==
    /\ UNCHANGED calls
    /\ stack # <<>> /\ Top.kind = "draw"
    /\ LET t == Top.tile
           tl == IF Top.rotated
                 THEN [tile EXCEPT ![t].pos = RestoredPosition(@)]
                 ELSE tile
       IN  tile' = Collect(tl, tilesMatrix, Pop(stack))
    /\ stack' = Pop(stack)
    /\ last' = Did("drawTile", TRUE, Top)
    /\ UNCHANGED <<useCanvas, context, canvas, ctx, viewport, tilesMatrix, tilesLoaded,
                   coverage, lastDrawn, midUpdate, updateAgain,
                   opacity, visible, hookInvoked, destroyed>>

\* tile.drawCanvas returns; on a rotated canvas _restoreRotationChanges
\* runs, and drawTile returns to its caller.
drawTileReturn ==
    /\ UNCHANGED calls
    /\ stack # <<>> /\ Top.kind = "draw"
    /\ LET t == Top.tile
           tl == IF Top.rotated
                 THEN [tile EXCEPT ![t].pos = RestoredPosition(@)]
                 ELSE tile
       IN  tile' = Collect(tl, tilesMatrix, Pop(stack))
    /\ ctx' = IF Top.rotated /\ ctx.depth > 0
              THEN [ctx EXCEPT !.depth = @ - 1]
              ELSE ctx
    /\ stack' = Pop(stack)
    /\ last' = Did("drawTile", TRUE, Top)
    /\ UNCHANGED <<useCanvas, context, canvas, viewport, tilesMatrix, tilesLoaded,
                   coverage, lastDrawn, midUpdate, updateAgain,
                   opacity, visible, hookInvoked, destroyed>>

\* tile.drawCanvas throws (the handler or the backend fails).  Nothing in
\* drawTile or update catches: the exception leaves every call in progress.
drawTileThrow ==
    /\ UNCHANGED calls
    /\ stack # <<>> /\ Top.kind = "draw"
    /\ tile' = Collect(tile, tilesMatrix, <<>>)
    /\ stack' = <<>>
    /\ last' = Did("drawTile", FALSE, Top)
    /\ UNCHANGED <<useCanvas, context, canvas, ctx, viewport, tilesMatrix,
                   tilesLoaded, coverage, lastDrawn, midUpdate,
                   updateAgain, opacity, visible, hookInvoked, destroyed>>

-----------------------------------------------------------------------------
(* update() and the update cycle *)

\* The elements of a set of tile coordinates in draw order (coarser first).
RECURSIVE InOrder(_)
InOrder(S) == IF S = {} THEN <<>>
              ELSE LET m == CHOOSE x \in S : \A y \in S : x <= y
                   IN  <<m>> \o InOrder(S \ {m})

\* ensure( level, column, row ) and the load request of the reconciliation
\* pass: the record of a visible coordinate, placed at position p.
Ensured(t, p) ==
    IF t \in tilesMatrix
    THEN [tile[t] EXCEPT !.pos = p,
                         !.state = IF @ = "unloaded" THEN "pending" ELSE @]
    ELSE [state |-> "pending", image |-> FALSE, pos |-> p]

\* updateViewport( drawer ) up to its first tile draw: reconciles the cache
\* with the visible set V, clears the backend and selects the loaded
\* visible tiles for drawing.
UpdateViewportBegin(V) ==
    /\ \A t \in V : t \in tilesMatrix \/ ~Referenced(t)
    /\ visible' = V
    /\ tile' = [t \in Tiles |-> IF t \in V THEN Ensured(t, Place(t)) ELSE tile[t]]
    /\ tilesMatrix' = tilesMatrix \cup V
    /\ canvas' = ClearedCanvas
    /\ ctx' = ClearedCtx
    /\ stack' = Append(stack,
                       [kind |-> "update",
                        todo |-> InOrder({t \in V : t \in tilesMatrix /\ tile[t].state = "loaded"}),
                        drawn |-> <<>>])

\* The end of updateViewport: the drawn tiles become lastDrawn and gain
\* coverage, and updateAgain is computed.
UpdateViewportEnd(animating) ==
    /\ Top.todo = <<>>
    /\ lastDrawn' = Top.drawn
    /\ coverage' = coverage \cup {t \in tilesMatrix : InSeq(t, Top.drawn)}
    /\ updateAgain' = (animating \/ \E t \in visible \cap tilesMatrix : tile[t].state = "pending")

\* update(), from its entry to the first tile draw of updateViewport.
updateEnter(V) ==
    /\ Called
    /\ AppRuns
    /\ Len(stack) + (IF \E t \in V \cap tilesMatrix : tile[t].state = "loaded" THEN 2 ELSE 1) <= MaxDepth
    /\ midUpdate' = TRUE
    /\ UpdateViewportBegin(V)
    /\ last' = Did("other", TRUE, NoFrame)
    /\ UNCHANGED <<useCanvas, context, viewport, tilesLoaded, coverage, lastDrawn,
                   updateAgain, opacity, hookInvoked, destroyed>>

\* update(), from the return of updateViewport to its own return.
updateReturn(animating) ==
    /\ UNCHANGED calls
    /\ stack # <<>> /\ Top.kind = "update"
    /\ UpdateViewportEnd(animating)
    /\ midUpdate' = FALSE
    /\ stack' = Pop(stack)
    /\ tile' = Collect(tile, tilesMatrix, Pop(stack))
    /\ last' = Did("update", TRUE, NoFrame)
    /\ UNCHANGED <<useCanvas, context, canvas, ctx, viewport, tilesMatrix,
                   tilesLoaded, opacity, visible, hookInvoked, destroyed>>

-----------------------------------------------------------------------------
(* The collaborators: image loader and viewport *)

\* The record markLoaded evicts once tilesLoaded (with t appended) exceeds
\* the budget: the oldest loaded record outside the visible set, 0 if none.
Evicted(t) ==
    LET cand == {i \in DOMAIN tilesLoaded : tilesLoaded[i] \notin visible /\ tilesLoaded[i] # t}
    IN  IF Len(tilesLoaded) + 1 > maxImageCacheCount /\ cand # {}
        THEN tilesLoaded[CHOOSE i \in cand : \A j \in cand : i <= j]
        ELSE 0

\* markLoaded that evicts the oldest other loaded record, visible or not.
tileLoadedEvictsOldest(t) ==
    /\ Called
    /\ stack = <<>>
    /\ ~destroyed
    /\ t \in tilesMatrix /\ tile[t].state = "pending"
    /\ LET cand == {i \in DOMAIN tilesLoaded : tilesLoaded[i] # t}
           e == IF Len(tilesLoaded) + 1 > maxImageCacheCount /\ cand # {}
                THEN tilesLoaded[CHOOSE i \in cand : \A j \in cand : i <= j]
                ELSE 0
           mx == tilesMatrix \ {e}
           tl == [tile EXCEPT ![t] = [@ EXCEPT !.state = "loaded", !.image = TRUE]]
       IN  /\ tilesMatrix' = mx
           /\ tilesLoaded' = SelectSeq(Append(tilesLoaded, t), LAMBDA x : x # e)
           /\ coverage' = coverage
           /\ tile' = Collect(tl, mx, stack)
    /\ last' = Did("loaded", TRUE, NoFrame)
    /\ UNCHANGED <<useCanvas, context, canvas, ctx, viewport, lastDrawn,
                   midUpdate, updateAgain, opacity, visible,
                   stack, hookInvoked, destroyed>>

\* A tile fetch completes between frames: markLoaded( record, image ).
\* Completions of requests issued before the last reset, or delivered after
\* destroy(), are ignored.
tileLoaded(t) ==
    /\ Called
    /\ stack = <<>>
    /\ ~destroyed
    /\ t \in tilesMatrix /\ tile[t].state = "pending"
    /\ LET e == Evicted(t)
           mx == tilesMatrix \ {e}
           tl == [tile EXCEPT ![t] = [@ EXCEPT !.state = "loaded", !.image = TRUE]]
       IN  /\ tilesMatrix' = mx
           /\ tilesLoaded' = SelectSeq(Append(tilesLoaded, t), LAMBDA x : x # e)
           /\ coverage' = coverage
           /\ tile' = Collect(tl, mx, stack)
    /\ last' = Did("loaded", TRUE, NoFrame)
    /\ UNCHANGED <<useCanvas, context, canvas, ctx, viewport, lastDrawn,
                   midUpdate, updateAgain, opacity, visible,
                   stack, hookInvoked, destroyed>>

\* A tile fetch fails between frames.
tileFailed(t) ==
    /\ Called
    /\ stack = <<>>
    /\ ~destroyed
    /\ t \in tilesMatrix /\ tile[t].state = "pending"
    /\ tile' = [tile EXCEPT ![t].state = "failed"]
    /\ last' = Did("other", TRUE, NoFrame)
    /\ UNCHANGED <<useCanvas, context, canvas, ctx, viewport, tilesMatrix,
                   tilesLoaded, coverage, lastDrawn, midUpdate,
                   updateAgain, opacity, visible, stack, hookInvoked, destroyed>>

\* The user rotates the viewport or resizes its container.
viewportChange(v) ==
    /\ Called
    /\ stack = <<>>
    /\ v # viewport
    /\ viewport' = v
    /\ last' = Did("other", TRUE, NoFrame)
    /\ UNCHANGED <<useCanvas, context, canvas, ctx, tile, tilesMatrix,
                   tilesLoaded, coverage, lastDrawn, midUpdate,
                   updateAgain, opacity, visible, stack, hookInvoked, destroyed>>

-----------------------------------------------------------------------------

Next ==
    \/ \E v \in Opacities : setOpacity(v)
    \/ reset
    \/ destroy
    \/ clear
    \/ \E t \in Tiles : drawDebugInfo(t)
    \/ \E t \in Tiles : drawTile(t)
    \/ drawTileReturn
    \/ drawTileThrow
    \/ \E V \in SUBSET Tiles : updateEnter(V)
    \/ \E a \in BOOLEAN : updateReturn(a)
    \/ \E t \in Tiles : tileLoaded(t)
    \/ \E t \in Tiles : tileFailed(t)
    \/ \E v \in [degrees : Degrees, size : ContainerSizes] : viewportChange(v)

Spec == Init /\ [][Next]_vars

-----------------------------------------------------------------------------
(* Properties *)

UpdatesRunning == Cardinality({i \in DOMAIN stack : stack[i].kind = "update"})

\* C1: an update() called while another update() is running (midUpdate
\* is true) is rejected: no second update cycle runs inside the first.
C1_NestedUpdateRejected == UpdatesRunning <= 1

\* The call that acted last was a drawTile on a rotated canvas that
\* ended normally (ok) or by an exception (~ok).
RotatedDrawEnded(ok) ==
    /\ last.op = "drawTile" /\ last.ok = ok
    /\ last.frame.kind = "draw" /\ last.frame.rotated
    /\ last.frame.tile \in tilesMatrix

\* C2: when drawTile returns on a rotated canvas whose size is what it was
\* on entry, the tile's position equals its value before the call.
C2_RotationRoundTrip ==
    (RotatedDrawEnded(TRUE) /\ last.frame.size0 = <<canvas.width, canvas.height>>)
        => tile[last.frame.tile].pos = last.frame.pos0

\* C3: when the draw inside drawTile fails on a rotated canvas, the
\* context's saved-state stack is back to its depth before the call and
\* the tile's position is back in screen space.
C3_ExitRunsOnFailure ==
    RotatedDrawEnded(FALSE)
        => /\ ctx.depth = last.frame.depth0
           /\ tile[last.frame.tile].pos = last.frame.pos0

\* C4: a record is in tilesLoaded exactly if it holds an image, its load
\* state is loaded and it is in tilesMatrix; numTilesLoaded() is the number
\* of records holding an image.
C4_CacheLockStep ==
    /\ \A t \in Tiles :
          InSeq(t, tilesLoaded)
            <=> (tile[t].state = "loaded" /\ tile[t].image /\ t \in tilesMatrix)
    /\ numTilesLoaded = Cardinality({t \in Tiles : tile[t].image})

\* C5: when destroy() returns, every record of tilesLoaded has been
\* unloaded (its image released) and the canvas is 1 x 1.
C5_DestroyReleases ==
    last.op = "destroy"
        => /\ Len(tilesLoaded) = last.n0
           /\ \A i \in DOMAIN tilesLoaded :
                 /\ ~tile[tilesLoaded[i]].image
                 /\ tile[tilesLoaded[i]].state = "unloaded"
           /\ canvas.width = 1 /\ canvas.height = 1

\* destroy() has just returned on a Drawer that had loaded tiles.
C5_Witness == last.op = "destroy" /\ last.n0 > 0 /\ last.ok

\* C6: after destroy(), a tile-fetch completion, a clear() or an update()
\* changes neither tilesLoaded nor the images held, and leaves the canvas
\* at its 1 x 1 size.
C6_NoOpAfterDestroy ==
    [][(destroyed /\ (clear \/ (\E t \in Tiles : tileLoaded(t))
                             \/ (\E V \in SUBSET Tiles : updateEnter(V))))
         => /\ tilesLoaded' = tilesLoaded
            /\ \A t \in Tiles : tile'[t].image = tile[t].image
            /\ canvas'.width = 1 /\ canvas'.height = 1]_vars

\* C7: right after reset() the cache is empty, numTilesLoaded() is 0; so a
\* second reset() in a row leaves the state of the first.
C7_ResetEmpties ==
    last.op = "reset"
        => /\ numTilesLoaded = 0
           /\ tilesMatrix = {} /\ coverage = {}
           /\ tilesLoaded = <<>> /\ lastDrawn = <<>>

\* reset() has just returned on a Drawer that had loaded tiles.
C7_Witness == last.op = "reset" /\ last.n0 > 0 /\ coverage = {} /\ tilesMatrix = {}

\* C8: on a Drawer whose useCanvas is false the tile-drawing handler is
\* never invoked and the drawing context is never used.
C8_HookOnlyOnCanvas ==
    ~useCanvas => (~hookInvoked /\ ~ctx.touched /\ ctx.depth = 0)

\* drawTile has just drawn a tile on the non-canvas backend of a rotated viewport.
C8_Witness ==
    /\ ~useCanvas /\ last.op = "drawTile"
    /\ last.frame.kind = "html" /\ last.frame.rotated /\ canvas.hasChildren

\* C9: drawTile on the non-canvas backend with viewport.degrees # 0 ends
\* in a failure, not in a normally drawn tile.
C9_NodeRotationReported ==
    (/\ ~useCanvas /\ last.op = "drawTile"
     /\ last.frame.kind = "html" /\ last.frame.rotated)
        => ~last.ok

\* C10: useCanvas and context never change, context is non-null exactly
\* when useCanvas is true, and canRotate() is true exactly on the canvas
\* backend.
C10_BackendFixed ==
    /\ []((context # "null") <=> useCanvas)
    /\ [](canRotate <=> useCanvas)
    /\ [][useCanvas' = useCanvas /\ context' = context]_vars

\* A non-canvas Drawer after loads, draws and a destroy().
C10_Witness == ~useCanvas /\ destroyed /\ tilesLoaded # <<>> /\ canvas.hasChildren

\* C11: when clear() returns on the canvas backend the canvas has the
\* container's size, and width and height were assigned only if they
\* differed from it on entry; on either backend the canvas element has no
\* child nodes.
C11_ClearResizesOnChange ==
    last.op = "clear"
        => /\ ~canvas.hasChildren
           /\ useCanvas => /\ canvas.width = viewport.size[1]
                           /\ canvas.height = viewport.size[2]
                           /\ last.frame.wrote <=> ~last.frame.matched
           /\ ~useCanvas => ~last.frame.wrote

\* clear() has just returned on a canvas whose size already matched.
C11_Witness == last.op = "clear" /\ useCanvas /\ last.frame.matched /\ ~last.frame.wrote

\* C12: a tile-load completion, whatever eviction it triggers, removes no
\* record of the current frame's visible set from tilesMatrix or from
\* tilesLoaded.
C12_EvictionSparesVisible ==
    [][last'.op = "loaded"
         => \A v \in visible :
               /\ v \in tilesMatrix => v \in tilesMatrix'
               /\ InSeq(v, tilesLoaded) => InSeq(v, tilesLoaded')]_vars

\* A load has completed past the budget while a visible record was loaded.
C12_Witness ==
    /\ last.op = "loaded"
    /\ Len(tilesLoaded) > maxImageCacheCount
    /\ \E v \in visible : InSeq(v, tilesLoaded) /\ tilesLoaded[Len(tilesLoaded)] # v

\* C13: a coverage entry that is true stays true in every step that is
\* not a reset(): update, clear, drawTile, drawDebugInfo, setOpacity,
\* destroy and the load completions never take an entry out of coverage.
C13_CoverageMonotone ==
    [][last'.op # "reset" => coverage \subseteq coverage']_vars

\* destroy() has just returned on a Drawer that has drawn tiles, and
\* their coverage entries are still set.
C13_Witness == last.op = "destroy" /\ coverage # {} /\ lastDrawn # <<>>

\* C14: midUpdate is true exactly while an update() call is in progress:
\* false whenever no update() is running, also after one was left by an
\* exception, and true as long as an outer update() has not returned.
C14_MidUpdateExact == midUpdate <=> UpdatesRunning > 0

\* C15: needsUpdate() is true in the initial state and right after every
\* reset(), and only the end of an update() cycle changes what it returns:
\* setOpacity, clear, drawTile and destroy leave a pending redraw pending.
C15_RedrawPending ==
    /\ [](last.op \in {"new", "reset"} => needsUpdate)
    /\ [][needsUpdate' # needsUpdate => last'.op \in {"update", "reset"}]_vars

\* reset() has just returned on a Drawer whose last update cycle had left
\* no redraw pending.
C15_Witness == last.op = "reset" /\ ~last.again0 /\ needsUpdate

\* C16: when drawTile returns on a rotated canvas whose size the
\* 'tile-drawing' handler has changed (by clear() after a resize of the
\* container, or by destroy()), the tile's position equals its value
\* before the call, as it does for an unchanged canvas whenever the
\* subtraction of the centre is exact.
C16_RoundTripAcrossResize ==
    LET p0 == last.frame.pos0
        c0 == <<Half(last.frame.size0[1]), Half(last.frame.size0[2])>>
    IN  (/\ RotatedDrawEnded(TRUE)
         /\ last.frame.size0 # <<canvas.width, canvas.height>>
         /\ Plus(Minus(p0[1], c0[1]), c0[1]) = p0[1]
         /\ Plus(Minus(p0[2], c0[2]), c0[2]) = p0[2])
            => tile[last.frame.tile].pos = p0

\* The rotated drawTile calls in progress: each has saved one context state.
RotatedDraws == Cardinality({i \in DOMAIN stack : stack[i].kind = "draw" /\ stack[i].rotated})

\* C17: a drawTile that returns normally leaves the context's saved-state
\* stack at the depth it had on entry, and every restore has its save
\* below it; drawDebugInfo leaves the depth and every tile position as
\* they were and, on the non-canvas backend, touches neither the context
\* nor the canvas element.
C17_SaveRestoreBalanced ==
    /\ []((last.op = "drawTile" /\ last.ok /\ last.frame.kind = "draw")
            => ctx.depth = last.frame.depth0)
    /\ [](ctx.depth >= RotatedDraws)
    /\ [][last'.op = "debug"
            => /\ ctx'.depth = ctx.depth
               /\ tile' = tile
               /\ ~useCanvas => (ctx' = ctx /\ canvas' = canvas)]_vars

\* A rotated drawTile has returned normally on a context that already
\* held a saved state when it was called.
C17_Witness ==
    /\ RotatedDrawEnded(TRUE)
    /\ last.frame.depth0 > 0
    /\ ctx.depth = last.frame.depth0

\* C18: getOpacity() returns the value of the most recent setOpacity (the
\* configured opacity until the first one), and setOpacity leaves
\* tilesMatrix, tilesLoaded, coverage, lastDrawn, midUpdate and
\* updateAgain as they were.
C18_OpacityOnly ==
    /\ [](last.op = "setOpacity" => getOpacity = last.frame.value)
    /\ [][getOpacity' # getOpacity => last'.op = "setOpacity"]_vars
    /\ [][last'.op = "setOpacity"
            => UNCHANGED <<tilesMatrix, tilesLoaded, coverage, lastDrawn,
                           midUpdate, updateAgain>>]_vars

\* setOpacity has just returned on a Drawer that holds loaded tiles and
\* has no redraw pending.
C18_Witness ==
    /\ last.op = "setOpacity" /\ getOpacity = last.frame.value
    /\ ~needsUpdate /\ tilesLoaded # <<>> /\ lastDrawn # <<>>

====
